---------------------------- MODULE Spec2Model ----------------------------
(***************************************************************************)
(* A state-machine model of the Enhanced DB Image Viewer                   *)
(* (src/image_viewer.py): the CacheManager, the ConfigManager, the         *)
(* QueryWorker thread and the handlers of the ImageViewer window.          *)
(*                                                                         *)
(* Python values are modelled as follows.                                  *)
(*   - text is a TLA+ string;                                              *)
(*   - a database cell is a record [t |-> type, v |-> content] with type   *)
(*     "null", "int", "str" or "bytes"; the content of a bytes cell is a   *)
(*     token naming the byte string ("PNG1" names the bytes of an image);  *)
(*   - a row is a sequence of cells (a Python tuple from fetchall, a list  *)
(*     after json.load: both are indexed and zipped alike);                *)
(*   - a dict is a record, None is the record NoneVal;                     *)
(*   - Python index i is TLA+ index i + 1.                                 *)
(* The info log (add_info_message) and the message boxes that only inform  *)
(* are write-only output that no handler reads; they are not state here.   *)
(***************************************************************************)
EXTENDS Integers, Sequences, FiniteSets, TLC

(***************************************************************************)
(* Python values                                                           *)
(***************************************************************************)
NoneVal == [none |-> TRUE]

NullCell == [t |-> "null", v |-> ""]

IntCell(n) == [t |-> "int", v |-> n]

StrCell(s) == [t |-> "str", v |-> s]

BytesCell(b) == [t |-> "bytes", v |-> b]

\* bool(x): None, 0, "" and b"" are false.
Truthy(cell) ==
  CASE cell.t = "null" -> FALSE
    [] cell.t = "int" -> cell.v # "0"
    [] OTHER -> cell.v # ""

\* str(x), for the row-data display and for json's default=str.
PyStr(cell) ==
  CASE cell.t = "null" -> "None"
    [] cell.t = "bytes" -> "b'" \o cell.v \o "'"
    [] OTHER -> cell.v

\* The byte strings QImage.fromData parses as an image.
Images == {"PNG1", "PNG2"}

QImage_isNull(bytes) == bytes \notin Images

\* base64.b64decode(s) without validate: characters outside the alphabet are
\* dropped, then the rest is decoded; a wrong length raises binascii.Error.
\* [ok |-> TRUE, bytes |-> b] is a return, [ok |-> FALSE, ...] a raise.
b64decode(s) ==
  CASE s = "UE5HMQ==" -> [ok |-> TRUE, bytes |-> "PNG1"]
    [] s = "UE5HMg==" -> [ok |-> TRUE, bytes |-> "PNG2"]
    [] s = "anVuaw==" -> [ok |-> TRUE, bytes |-> "junk"]
    [] s = "%%%" -> [ok |-> TRUE, bytes |-> ""]
    [] OTHER -> [ok |-> FALSE, bytes |-> "Incorrect padding"]

\* str.strip(): leading and trailing blanks removed.
RECURSIVE LStrip(_)
LStrip(s) ==
  IF Len(s) > 0 /\ SubSeq(s, 1, 1) = " " THEN LStrip(SubSeq(s, 2, Len(s))) ELSE s

RECURSIVE RStrip(_)
RStrip(s) ==
  IF Len(s) > 0 /\ SubSeq(s, Len(s), Len(s)) = " "
    THEN RStrip(SubSeq(s, 1, Len(s) - 1))
    ELSE s

Strip(s) == RStrip(LStrip(s))

\* dict.get(k, default)
Get(d, k, default) == IF k \in DOMAIN d THEN d[k] ELSE default

\* dict(zip(column_names, record)).get(col): the cell of the last column
\* named col among the zipped ones, None when there is none.
RecordGet(column_names, record, col) ==
  LET n == IF Len(column_names) < Len(record) THEN Len(column_names) ELSE Len(record)
      hits == {i \in 1..n : column_names[i] = col}
  IN  IF hits = {} THEN NullCell
      ELSE record[CHOOSE i \in hits : \A j \in hits : j <= i]

(***************************************************************************)
(* The state                                                               *)
(***************************************************************************)
VARIABLES
  \* the connection form and the query form (create_db_connection_group,
  \* create_query_group, create_options_group, create_grid_view)
  db_type_combo, conn_name_input, sqlite_path_input,
  pg_host_input, pg_port_input, pg_dbname_input, pg_user_input, pg_pass_input,
  query_input, query_name_input, image_column_input,
  use_cache_checkbox, grid_columns_spinbox, items_per_page,
  \* the two list widgets: the item data of each row
  saved_connections_list, saved_queries_list,
  \* ConfigManager: config in memory, config_file on disk (NoneVal: no file)
  config, config_file,
  \* CacheManager: cache_index in memory, cache_index_file and the cache
  \* files on disk (cache_files maps a file's path to its parsed content)
  cache_index, cache_index_file, cache_files,
  \* ImageViewer members
  db_connection, results, column_names, current_index, image_column_name,
  current_page, grid_items,
  \* widgets of the viewer panel
  status_label, image_label, other_data_label,
  prev_button, next_button, download_button,
  page_label, prev_page_btn, next_page_btn,
  run_button, progress_bar,
  \* the background worker: query_worker is the member, workers counts the
  \* QueryWorker threads whose run() has not returned, finished_signals is
  \* the queue of finished signals emitted and not yet delivered
  query_worker, workers, finished_signals,
  \* the environment: connections opened and not closed, the dialog that
  \* download_image_by_index showed last, the image files written, and
  \* whether the window has been closed
  open_connections, dialog, saved_images, closed

formVars ==
  <<db_type_combo, conn_name_input, sqlite_path_input, pg_host_input,
    pg_port_input, pg_dbname_input, pg_user_input, pg_pass_input,
    query_input, query_name_input, image_column_input, use_cache_checkbox,
    grid_columns_spinbox, items_per_page>>

connFormVars ==
  <<db_type_combo, conn_name_input, sqlite_path_input, pg_host_input,
    pg_port_input, pg_dbname_input, pg_user_input, pg_pass_input>>

configVars == <<saved_connections_list, saved_queries_list, config, config_file>>

cacheVars == <<cache_index, cache_index_file, cache_files>>

viewVars ==
  <<results, column_names, current_index, image_column_name, current_page,
    grid_items, status_label, image_label, other_data_label, prev_button,
    next_button, download_button, page_label, prev_page_btn, next_page_btn>>

workerVars == <<db_connection, run_button, progress_bar, query_worker, workers,
                finished_signals, open_connections>>

exportVars == <<dialog, saved_images>>

vars == <<formVars, configVars, cacheVars, viewVars, workerVars, exportVars, closed>>

(***************************************************************************)
(* CacheManager                                                            *)
(***************************************************************************)
\* repr() of a str without quotes or backslashes
PyRepr(s) == "'" \o s \o "'"

\* str(connection_info), the dict's items in insertion order
DictStr(connection_info) ==
  IF connection_info.type = "sqlite"
    THEN "{'type': 'sqlite', 'path': " \o PyRepr(connection_info.path) \o "}"
    ELSE "{'type': 'postgresql', 'host': " \o PyRepr(connection_info.host)
         \o ", 'port': " \o PyRepr(connection_info.port)
         \o ", 'dbname': " \o PyRepr(connection_info.dbname)
         \o ", 'user': " \o PyRepr(connection_info.user) \o "}"

\* The md5 digest is taken to be injective: the key is the digested text.
get_cache_key(connection_info, query) == DictStr(connection_info) \o query

\* cache_dir / f"{cache_key}.json"
CacheFile(cache_key) == "db_viewer_cache/" \o cache_key \o ".json"

\* json.dump(..., default=str) followed by json.load: a bytes cell is written
\* as the text of its str(), every other cell comes back as it was.
JsonCell(cell) == IF cell.t = "bytes" THEN StrCell(PyStr(cell)) ELSE cell

JsonRows(rows) ==
  [i \in 1..Len(rows) |-> [j \in 1..Len(rows[i]) |-> JsonCell(rows[i][j])]]

\* The content of the cache file cache_results writes; "timestamp" is the
\* return value of QTimer.singleShot, None.
CacheData(rs, cols) ==
  [results |-> JsonRows(rs), column_names |-> cols, timestamp |-> NoneVal]

\* get_cached_results over the index and the files: the parsed file, or None.
get_cached_results(index, files, cache_key) ==
  IF cache_key \in DOMAIN index /\ index[cache_key].file \in DOMAIN files
    THEN files[index[cache_key].file]
    ELSE NoneVal

\* f with x mapped to y (d[x] = y)
DictSet(f, x, y) == [k \in DOMAIN f \cup {x} |-> IF k = x THEN y ELSE f[k]]

\* Mutant of cache_results_index: a count is added to the key's earlier one.
cache_results_index_Add(index, cache_key, rs) ==
  DictSet(index, cache_key,
          [file |-> CacheFile(cache_key),
           size |-> Len(rs) + (IF cache_key \in DOMAIN index
                                 THEN index[cache_key].size ELSE 0)])

\* cache_results: the three state components after the call.
cache_results_index(index, cache_key, rs) ==
  DictSet(index, cache_key, [file |-> CacheFile(cache_key), size |-> Len(rs)])

cache_results_files(files, cache_key, rs, cols) ==
  DictSet(files, CacheFile(cache_key), CacheData(rs, cols))

RECURSIVE SumSizes(_, _)
SumSizes(index, keys) ==
  IF keys = {} THEN 0
  ELSE LET k == CHOOSE x \in keys : TRUE
       IN  index[k].size + SumSizes(index, keys \ {k})

get_cache_size(index) == SumSizes(index, DOMAIN index)

(***************************************************************************)
(* ConfigManager                                                           *)
(***************************************************************************)
EmptyDict == [k \in {} |-> ""]

\* load_config when there is no file
DefaultConfig ==
  [connections |-> <<>>, queries |-> <<>>, last_connection |-> EmptyDict,
   last_query |-> "", last_image_column |-> "image_data",
   window_geometry |-> "", grid_columns |-> 3]

\* Mutant of add_connection: the entries of the same name are kept.
add_connection_Append(cfg, connection_info) ==
  [cfg EXCEPT !.connections = Append(@, connection_info)]

add_connection(cfg, connection_info) ==
  [cfg EXCEPT !.connections =
     Append(SelectSeq(@, LAMBDA conn : conn.name # connection_info.name),
            connection_info)]

NameLimit == 50

\* name = query[:50] + "..." if len(query) > 50 else query, when name is empty
QueryName(query, name) ==
  IF name # "" THEN name
  ELSE IF Len(query) > NameLimit
         THEN SubSeq(query, 1, NameLimit) \o "..."
         ELSE query

\* Mutant of add_query: the entries of the same query text are kept.
add_query_Append(cfg, query, name) ==
  [cfg EXCEPT !.queries =
     Append(@, [name |-> QueryName(query, name), query |-> query])]

add_query(cfg, query, name) ==
  [cfg EXCEPT !.queries =
     Append(SelectSeq(@, LAMBDA q : q.query # query),
            [name |-> QueryName(query, name), query |-> query])]

(***************************************************************************)
(* ImageViewer: the viewer panel.  The methods that compute what the panel *)
(* shows are operators on the record of the panel's members and widgets;   *)
(* the handlers below assign their result.                                 *)
(***************************************************************************)
View ==
  [results |-> results, column_names |-> column_names,
   current_index |-> current_index, image_column_name |-> image_column_name,
   current_page |-> current_page, grid_items |-> grid_items,
   status_label |-> status_label, image_label |-> image_label,
   other_data_label |-> other_data_label, prev_button |-> prev_button,
   next_button |-> next_button, download_button |-> download_button,
   page_label |-> page_label, prev_page_btn |-> prev_page_btn,
   next_page_btn |-> next_page_btn]

\* The assignment of a computed panel (w is v, evaluated once).
SetView(v) ==
  \E w \in {v} :
    /\ results' = w.results
    /\ column_names' = w.column_names
    /\ current_index' = w.current_index
    /\ image_column_name' = w.image_column_name
    /\ current_page' = w.current_page
    /\ grid_items' = w.grid_items
    /\ status_label' = w.status_label
    /\ image_label' = w.image_label
    /\ other_data_label' = w.other_data_label
    /\ prev_button' = w.prev_button
    /\ next_button' = w.next_button
    /\ download_button' = w.download_button
    /\ page_label' = w.page_label
    /\ prev_page_btn' = w.prev_page_btn
    /\ next_page_btn' = w.next_page_btn

\* A QLabel shows a pixmap or a text; clear() leaves neither.
LabelClear == [pixmap |-> "", text |-> ""]

LabelText(s) == [pixmap |-> "", text |-> s]

LabelPixmap(bytes) == [pixmap |-> bytes, text |-> ""]

\* process_image_data: "bytes" with the bytes, "none", or "raise" with the
\* message of the exception b64decode raised.
process_image_data(image_data) ==
  IF image_data.t = "str"
    THEN LET d == b64decode(image_data.v)
         IN  IF d.ok THEN [kind |-> "bytes", v |-> d.bytes]
             ELSE [kind |-> "raise", v |-> d.bytes]
  ELSE IF image_data.t = "bytes" THEN [kind |-> "bytes", v |-> image_data.v]
  ELSE [kind |-> "none", v |-> ""]

InRange(index, rs) == 0 <= index /\ index < Len(rs)

\* Mutant of SingleImageLabel: the exception of a failed decode is not
\* caught; it leaves the label as clear() left it.
SingleImageLabel_Uncaught(image_data) ==
  IF ~Truthy(image_data) THEN LabelText("No image in this record.")
  ELSE LET r == process_image_data(image_data)
       IN  CASE r.kind = "raise" -> LabelClear
             [] r.kind = "bytes" /\ r.v # "" ->
                  IF QImage_isNull(r.v) THEN LabelClear ELSE LabelPixmap(r.v)
             [] OTHER -> LabelText("Unsupported image data type.")

\* The image label of display_current_record for one image cell.
SingleImageLabel(image_data) ==
  IF ~Truthy(image_data) THEN LabelText("No image in this record.")
  ELSE LET r == process_image_data(image_data)
       IN  CASE r.kind = "raise" -> LabelText("Error loading image:\n" \o r.v)
             [] r.kind = "bytes" /\ r.v # "" ->
                  IF QImage_isNull(r.v)
                    THEN LabelText("Error loading image:\n"
                                   \o "Data could not be parsed as an image.")
                    ELSE LabelPixmap(r.v)
             [] OTHER -> LabelText("Unsupported image data type.")

DisplayLimit == 150

Truncate(s, limit) == IF Len(s) > limit THEN SubSeq(s, 1, limit) \o "..." ELSE s

\* The items of dict(zip(column_names, record)): each column name once, at
\* its first place, with the value of its last occurrence.
RecordKeys(cols, record) ==
  LET n == IF Len(cols) < Len(record) THEN Len(cols) ELSE Len(record)
  IN  SelectSeq([i \in 1..n |-> i],
                LAMBDA i : \A j \in 1..(i - 1) : cols[j] # cols[i])

RECURSIVE OtherData(_, _, _, _)
OtherData(cols, record, image_col, keys) ==
  IF keys = <<>> THEN ""
  ELSE LET col == cols[Head(keys)]
           rest == OtherData(cols, record, image_col, Tail(keys))
       IN  IF col = image_col THEN rest
           ELSE "<b>" \o col \o ":</b> "
                \o Truncate(PyStr(RecordGet(cols, record, col)), DisplayLimit)
                \o "<br>" \o rest

RecordStatus(index, n) == "Record " \o ToString(index + 1) \o " of " \o ToString(n)

display_current_record(v) ==
  IF ~InRange(v.current_index, v.results) THEN v
  ELSE LET record == v.results[v.current_index + 1]
           image_data == RecordGet(v.column_names, record, v.image_column_name)
       IN  [v EXCEPT
              !.image_label = SingleImageLabel(image_data),
              !.other_data_label =
                 OtherData(v.column_names, record, v.image_column_name,
                           RecordKeys(v.column_names, record)),
              !.status_label = RecordStatus(v.current_index, Len(v.results))]

Min(a, b) == IF a < b THEN a ELSE b

\* (len(results) - 1) // items_per_page + 1, with Python's floor division
TotalPages(n, ipp) == ((n - 1) \div ipp) + 1

PageStatus(page, total) == "Page " \o ToString(page + 1) \o " of " \o ToString(total)

\* update_grid_view raises a TypeError at the first item of the page: the
\* loop over the caption columns, `for col in ["name", ...]`, rebinds the
\* column counter col to a string, and grid_layout.addWidget(item_widget,
\* row, col) takes no string.  It raises whenever the page has an item.
update_grid_view_raises(v, ipp) ==
  /\ v.results # <<>>
  /\ v.current_page * ipp < Min(v.current_page * ipp + ipp, Len(v.results))

\* The panel when update_grid_view returns or raises: the old items are
\* removed; no item is added before the exception; the page label and the
\* page buttons are set only when the loop ran over no item.
update_grid_view(v, ipp) ==
  IF v.results = <<>> \/ update_grid_view_raises(v, ipp)
    THEN [v EXCEPT !.grid_items = <<>>]
    ELSE LET total_pages == TotalPages(Len(v.results), ipp)
         IN  [v EXCEPT
                !.grid_items = <<>>,
                !.page_label = PageStatus(v.current_page, total_pages),
                !.prev_page_btn = v.current_page > 0,
                !.next_page_btn = v.current_page < total_pages - 1]

update_nav_buttons(v) ==
  IF v.results = <<>>
    THEN [v EXCEPT !.prev_button = FALSE, !.next_button = FALSE,
                   !.download_button = FALSE]
    ELSE [v EXCEPT !.prev_button = v.current_index > 0,
                   !.next_button = v.current_index < Len(v.results) - 1,
                   !.download_button = TRUE]

\* process_results does not catch the exception of update_grid_view.
process_results_raises(v, ipp) ==
  /\ \E i \in 1..Len(v.column_names) : v.column_names[i] = v.image_column_name
  /\ update_grid_view_raises(v, ipp)

\* The panel when process_results returns or raises: update_nav_buttons
\* runs only when update_grid_view returned.
process_results(v, ipp) ==
  IF \A i \in 1..Len(v.column_names) : v.column_names[i] # v.image_column_name
    THEN v
  ELSE IF v.results = <<>>
    THEN update_nav_buttons(
           [v EXCEPT !.status_label = "Query executed, but returned no results.",
                     !.image_label = LabelClear,
                     !.other_data_label = "",
                     !.current_index = -1])
    ELSE \* shown is the panel after display_current_record, grid the one
         \* after update_grid_view
         CHOOSE r \in
           {IF update_grid_view_raises(grid, ipp) THEN grid
                                                 ELSE update_nav_buttons(grid) :
              grid \in {update_grid_view(shown, ipp) :
                          shown \in {display_current_record(
                                       [v EXCEPT !.current_index = 0])}}} : TRUE

\* An exception that leaves a slot is unhandled.  PyQt6 then calls qFatal and
\* the process aborts, unless the environment has installed an exception
\* hook: the hook reports the exception and the event loop goes on.
Unhandled(raised) ==
  IF raised THEN closed' \in BOOLEAN ELSE closed' = closed

(***************************************************************************)
(* The user's edits of the forms.  Every handler runs on the GUI thread,   *)
(* one at a time, and none runs once the window is closed.                 *)
(***************************************************************************)
\* The type combo; its currentIndexChanged slot, update_connection_fields,
\* only shows and hides rows of the form.
SetDbType(t) ==
  /\ ~closed
  /\ db_type_combo' = t
  /\ UNCHANGED <<conn_name_input, sqlite_path_input, pg_host_input, pg_port_input,
                 pg_dbname_input, pg_user_input, pg_pass_input, query_input,
                 query_name_input, image_column_input, use_cache_checkbox,
                 grid_columns_spinbox, items_per_page>>
  /\ UNCHANGED <<configVars, cacheVars, viewVars, workerVars, exportVars, closed>>

SetConnName(s) ==
  /\ ~closed
  /\ conn_name_input' = s
  /\ UNCHANGED <<db_type_combo, sqlite_path_input, pg_host_input, pg_port_input,
                 pg_dbname_input, pg_user_input, pg_pass_input, query_input,
                 query_name_input, image_column_input, use_cache_checkbox,
                 grid_columns_spinbox, items_per_page>>
  /\ UNCHANGED <<configVars, cacheVars, viewVars, workerVars, exportVars, closed>>

\* Typing the path, or picking it with browse_sqlite_file.
SetSqlitePath(s) ==
  /\ ~closed
  /\ sqlite_path_input' = s
  /\ UNCHANGED <<db_type_combo, conn_name_input, pg_host_input, pg_port_input,
                 pg_dbname_input, pg_user_input, pg_pass_input, query_input,
                 query_name_input, image_column_input, use_cache_checkbox,
                 grid_columns_spinbox, items_per_page>>
  /\ UNCHANGED <<configVars, cacheVars, viewVars, workerVars, exportVars, closed>>

\* Filling in the five PostgreSQL fields.
SetPgFields(f) ==
  /\ ~closed
  /\ pg_host_input' = f.host
  /\ pg_port_input' = f.port
  /\ pg_dbname_input' = f.dbname
  /\ pg_user_input' = f.user
  /\ pg_pass_input' = f.password
  /\ UNCHANGED <<db_type_combo, conn_name_input, sqlite_path_input, query_input,
                 query_name_input, image_column_input, use_cache_checkbox,
                 grid_columns_spinbox, items_per_page>>
  /\ UNCHANGED <<configVars, cacheVars, viewVars, workerVars, exportVars, closed>>

SetQuery(q) ==
  /\ ~closed
  /\ query_input' = q
  /\ UNCHANGED <<connFormVars, query_name_input, image_column_input,
                 use_cache_checkbox, grid_columns_spinbox, items_per_page>>
  /\ UNCHANGED <<configVars, cacheVars, viewVars, workerVars, exportVars, closed>>

SetQueryName(s) ==
  /\ ~closed
  /\ query_name_input' = s
  /\ UNCHANGED <<connFormVars, query_input, image_column_input,
                 use_cache_checkbox, grid_columns_spinbox, items_per_page>>
  /\ UNCHANGED <<configVars, cacheVars, viewVars, workerVars, exportVars, closed>>

SetImageColumn(s) ==
  /\ ~closed
  /\ image_column_input' = s
  /\ UNCHANGED <<connFormVars, query_input, query_name_input,
                 use_cache_checkbox, grid_columns_spinbox, items_per_page>>
  /\ UNCHANGED <<configVars, cacheVars, viewVars, workerVars, exportVars, closed>>

SetUseCache(b) ==
  /\ ~closed
  /\ use_cache_checkbox' = b
  /\ UNCHANGED <<connFormVars, query_input, query_name_input,
                 image_column_input, grid_columns_spinbox, items_per_page>>
  /\ UNCHANGED <<configVars, cacheVars, viewVars, workerVars, exportVars, closed>>

SetGridColumns(n) ==
  /\ ~closed
  /\ grid_columns_spinbox' = n
  /\ UNCHANGED <<connFormVars, query_input, query_name_input,
                 image_column_input, use_cache_checkbox, items_per_page>>
  /\ UNCHANGED <<configVars, cacheVars, viewVars, workerVars, exportVars, closed>>

SetItemsPerPage(n) ==
  /\ ~closed
  /\ items_per_page' = n
  /\ UNCHANGED <<connFormVars, query_input, query_name_input,
                 image_column_input, use_cache_checkbox, grid_columns_spinbox>>
  /\ UNCHANGED <<configVars, cacheVars, viewVars, workerVars, exportVars, closed>>

(***************************************************************************)
(* ImageViewer: saved connections and saved queries                        *)
(***************************************************************************)
\* The dict save_current_connection builds from the form.
FormConnInfo(conn_name) ==
  IF db_type_combo = "SQLite"
    THEN [name |-> conn_name, type |-> db_type_combo, path |-> sqlite_path_input]
    ELSE [name |-> conn_name, type |-> db_type_combo,
          host |-> pg_host_input, port |-> pg_port_input,
          dbname |-> pg_dbname_input, user |-> pg_user_input,
          password |-> pg_pass_input]

\* add_connection (which ends with save_config), then refresh_saved_connections.
save_current_connection ==
  /\ ~closed
  /\ LET conn_name == Strip(conn_name_input)
     IN  \/ /\ conn_name = ""
            /\ UNCHANGED <<config, config_file, saved_connections_list>>
         \/ /\ conn_name # ""
            /\ config' = add_connection(config, FormConnInfo(conn_name))
            /\ config_file' = config'
            /\ saved_connections_list' = config'.connections
  /\ UNCHANGED <<saved_queries_list, formVars, cacheVars, viewVars, workerVars,
                 exportVars, closed>>

\* add_query (which ends with save_config), then refresh_saved_queries.
save_current_query ==
  /\ ~closed
  /\ LET query == Strip(query_input)
         query_name == Strip(query_name_input)
     IN  \/ /\ query = ""
            /\ UNCHANGED <<config, config_file, saved_queries_list>>
         \/ /\ query # ""
            /\ config' = add_query(config, query, query_name)
            /\ config_file' = config'
            /\ saved_queries_list' = config'.queries
  /\ UNCHANGED <<saved_connections_list, formVars, cacheVars, viewVars, workerVars,
                 exportVars, closed>>

\* Mutant of LoadedConnForm: the port is set to its default, not the saved one.
LoadedConnForm_DefaultPort(conn_info) ==
  IF conn_info.type = "SQLite"
    THEN [db_type |-> conn_info.type, conn_name |-> conn_info.name,
          sqlite_path |-> Get(conn_info, "path", ""),
          pg_host |-> pg_host_input, pg_port |-> pg_port_input,
          pg_dbname |-> pg_dbname_input, pg_user |-> pg_user_input,
          pg_pass |-> pg_pass_input]
    ELSE [db_type |-> conn_info.type, conn_name |-> conn_info.name,
          sqlite_path |-> sqlite_path_input,
          pg_host |-> Get(conn_info, "host", "localhost"),
          pg_port |-> "5432",
          pg_dbname |-> Get(conn_info, "dbname", ""),
          pg_user |-> Get(conn_info, "user", ""),
          pg_pass |-> Get(conn_info, "password", "")]

\* The connection form after load_saved_connection has set it from
\* conn_info: the fields of the other database type keep their text.
LoadedConnForm(conn_info) ==
  IF conn_info.type = "SQLite"
    THEN [db_type |-> conn_info.type, conn_name |-> conn_info.name,
          sqlite_path |-> Get(conn_info, "path", ""),
          pg_host |-> pg_host_input, pg_port |-> pg_port_input,
          pg_dbname |-> pg_dbname_input, pg_user |-> pg_user_input,
          pg_pass |-> pg_pass_input]
    ELSE [db_type |-> conn_info.type, conn_name |-> conn_info.name,
          sqlite_path |-> sqlite_path_input,
          pg_host |-> Get(conn_info, "host", "localhost"),
          pg_port |-> Get(conn_info, "port", "5432"),
          pg_dbname |-> Get(conn_info, "dbname", ""),
          pg_user |-> Get(conn_info, "user", ""),
          pg_pass |-> Get(conn_info, "password", "")]

\* load_selected_connection, or a double click: the item at place i.
load_saved_connection(i) ==
  /\ ~closed
  /\ i \in 1..Len(saved_connections_list)
  /\ LET form == LoadedConnForm(saved_connections_list[i])
     IN  /\ db_type_combo' = form.db_type
         /\ conn_name_input' = form.conn_name
         /\ sqlite_path_input' = form.sqlite_path
         /\ pg_host_input' = form.pg_host
         /\ pg_port_input' = form.pg_port
         /\ pg_dbname_input' = form.pg_dbname
         /\ pg_user_input' = form.pg_user
         /\ pg_pass_input' = form.pg_pass
  /\ UNCHANGED <<query_input, query_name_input, image_column_input,
                 use_cache_checkbox, grid_columns_spinbox, items_per_page>>
  /\ UNCHANGED <<configVars, cacheVars, viewVars, workerVars, exportVars, closed>>

\* Mutant of delete_selected_connection: save_config is not called.
delete_selected_connection_NoSave(i, reply) ==
  /\ ~closed
  /\ i \in 1..Len(saved_connections_list)
  /\ LET conn_info == saved_connections_list[i]
     IN  \/ /\ reply = "Yes"
            /\ config' = [config EXCEPT !.connections =
                            SelectSeq(@, LAMBDA c : c.name # conn_info.name)]
            /\ config_file' = config_file
            /\ saved_connections_list' = config'.connections
         \/ /\ reply = "No"
            /\ UNCHANGED <<config, config_file, saved_connections_list>>
  /\ UNCHANGED <<saved_queries_list, formVars, cacheVars, viewVars, workerVars,
                 exportVars, closed>>

\* The item at place i is selected; reply is the answer to the question box.
delete_selected_connection(i, reply) ==
  /\ ~closed
  /\ i \in 1..Len(saved_connections_list)
  /\ LET conn_info == saved_connections_list[i]
     IN  \/ /\ reply = "Yes"
            /\ config' = [config EXCEPT !.connections =
                            SelectSeq(@, LAMBDA c : c.name # conn_info.name)]
            /\ config_file' = config'
            /\ saved_connections_list' = config'.connections
         \/ /\ reply = "No"
            /\ UNCHANGED <<config, config_file, saved_connections_list>>
  /\ UNCHANGED <<saved_queries_list, formVars, cacheVars, viewVars, workerVars,
                 exportVars, closed>>

load_saved_query(i) ==
  /\ ~closed
  /\ i \in 1..Len(saved_queries_list)
  /\ query_input' = saved_queries_list[i].query
  /\ query_name_input' = saved_queries_list[i].name
  /\ UNCHANGED <<connFormVars, image_column_input, use_cache_checkbox,
                 grid_columns_spinbox, items_per_page>>
  /\ UNCHANGED <<configVars, cacheVars, viewVars, workerVars, exportVars, closed>>

delete_selected_query(i, reply) ==
  /\ ~closed
  /\ i \in 1..Len(saved_queries_list)
  /\ LET query_info == saved_queries_list[i]
     IN  \/ /\ reply = "Yes"
            /\ config' = [config EXCEPT !.queries =
                            SelectSeq(@, LAMBDA q : q.query # query_info.query)]
            /\ config_file' = config'
            /\ saved_queries_list' = config'.queries
         \/ /\ reply = "No"
            /\ UNCHANGED <<config, config_file, saved_queries_list>>
  /\ UNCHANGED <<saved_connections_list, formVars, cacheVars, viewVars, workerVars,
                 exportVars, closed>>

(***************************************************************************)
(* ImageViewer: running a query                                            *)
(***************************************************************************)
get_connection_info ==
  IF db_type_combo = "SQLite"
    THEN [type |-> "sqlite", path |-> sqlite_path_input]
    ELSE [type |-> "postgresql", host |-> pg_host_input, port |-> pg_port_input,
          dbname |-> pg_dbname_input, user |-> pg_user_input]

\* What sqlite3.connect / psycopg.connect is called with.
ConnectTarget ==
  IF db_type_combo = "SQLite" THEN sqlite_path_input
  ELSE "host=" \o pg_host_input \o " port=" \o pg_port_input
       \o " dbname=" \o pg_dbname_input \o " user=" \o pg_user_input
       \o " password=" \o pg_pass_input

Connection(target) == [target |-> target]

\* Mutant of OpenAfterClose: the existing connection is forgotten unclosed.
OpenAfterClose_Leak == open_connections

\* run_query's first statement: the member after an existing connection has
\* been closed, and the number of connections then open.
ClosedExisting == NoneVal

OpenAfterClose ==
  IF db_connection # NoneVal THEN open_connections - 1 ELSE open_connections

\* Mutant of CacheLookup: the Use Cache box is not tested.
CacheLookup_Always ==
  get_cached_results(cache_index, cache_files,
                     get_cache_key(get_connection_info, query_input))

\* Mutant of CacheLookup: the test of the Use Cache box is inverted.
CacheLookup_Inverted ==
  IF ~use_cache_checkbox
    THEN get_cached_results(cache_index, cache_files,
                            get_cache_key(get_connection_info, query_input))
    ELSE NoneVal

\* The cache lookup of run_query: the cached dict, None without the Use
\* Cache box or without a readable entry.
CacheLookup ==
  IF use_cache_checkbox
    THEN get_cached_results(cache_index, cache_files,
                            get_cache_key(get_connection_info, query_input))
    ELSE NoneVal

\* Mutant of StartWorker: the run button is not disabled.
StartWorker_ButtonLeftEnabled(connection) ==
  /\ progress_bar' = TRUE
  /\ query_worker' = [connection |-> connection, query |-> query_input]
  /\ workers' = workers + 1
  /\ UNCHANGED <<run_button, finished_signals>>

\* The tail of run_query: the worker thread is created and started.
StartWorker(connection) ==
  /\ run_button' = FALSE
  /\ progress_bar' = TRUE
  /\ query_worker' = [connection |-> connection, query |-> query_input]
  /\ workers' = workers + 1
  /\ UNCHANGED finished_signals

\* A click on the run button (a disabled button takes no click).  connects
\* says whether the database accepts the connection.
run_query(connects) ==
  /\ ~closed
  /\ run_button
  /\ LET column == Strip(image_column_input)
         cached == CacheLookup
         v0 == [View EXCEPT !.image_column_name = column]
     IN  \/ /\ column = ""
            /\ SetView(v0)
            /\ db_connection' = ClosedExisting
            /\ open_connections' = OpenAfterClose
            /\ UNCHANGED <<run_button, progress_bar, query_worker, workers,
                           finished_signals, closed>>
         \/ /\ column # ""
            /\ cached # NoneVal
            /\ \E v1 \in {[v0 EXCEPT !.results = cached.results,
                                      !.column_names = cached.column_names]} :
                 /\ SetView(process_results(v1, items_per_page))
                 /\ Unhandled(process_results_raises(v1, items_per_page))
            /\ db_connection' = ClosedExisting
            /\ open_connections' = OpenAfterClose
            /\ UNCHANGED <<run_button, progress_bar, query_worker, workers,
                           finished_signals>>
         \/ /\ column # ""
            /\ cached = NoneVal
            /\ ~connects \/ (db_type_combo = "SQLite" /\ sqlite_path_input = "")
            /\ SetView(v0)
            /\ db_connection' = ClosedExisting
            /\ open_connections' = OpenAfterClose
            /\ UNCHANGED <<run_button, progress_bar, query_worker, workers,
                           finished_signals, closed>>
         \/ /\ column # ""
            /\ cached = NoneVal
            /\ connects /\ ~(db_type_combo = "SQLite" /\ sqlite_path_input = "")
            /\ SetView(v0)
            /\ db_connection' = Connection(ConnectTarget)
            /\ open_connections' = OpenAfterClose + 1
            /\ StartWorker(Connection(ConnectTarget))
            /\ UNCHANGED closed
  /\ UNCHANGED <<formVars, configVars, cacheVars, exportVars>>

\* QueryWorker.run, on the worker thread: one finished signal, with the rows
\* and column names the database returned or with the error it raised.
FinishedOk(rs) == [results |-> rs.rows, column_names |-> rs.cols, error |-> ""]

FinishedError(e) == [results |-> <<>>, column_names |-> <<>>, error |-> e]

\* Mutant of QueryWorker_run: an exception of the query is swallowed, no
\* signal is emitted for it.
QueryWorker_run_Swallow(signal) ==
  /\ ~closed
  /\ workers > 0
  /\ workers' = workers - 1
  /\ finished_signals' =
       IF signal.error = "" THEN Append(finished_signals, signal) ELSE finished_signals
  /\ UNCHANGED <<db_connection, run_button, progress_bar, query_worker,
                 open_connections>>
  /\ UNCHANGED <<formVars, configVars, cacheVars, viewVars, exportVars, closed>>

QueryWorker_run(signal) ==
  /\ ~closed
  /\ workers > 0
  /\ workers' = workers - 1
  /\ finished_signals' = Append(finished_signals, signal)
  /\ UNCHANGED <<db_connection, run_button, progress_bar, query_worker,
                 open_connections>>
  /\ UNCHANGED <<formVars, configVars, cacheVars, viewVars, exportVars, closed>>

\* The slot of the finished signal, delivered on the GUI thread.
on_query_finished ==
  /\ ~closed
  /\ finished_signals # <<>>
  /\ finished_signals' = Tail(finished_signals)
  /\ run_button' = TRUE
  /\ progress_bar' = FALSE
  /\ LET signal == Head(finished_signals)
         cache_key == get_cache_key(get_connection_info, query_input)
         v1 == [View EXCEPT !.results = signal.results,
                            !.column_names = signal.column_names]
     IN  \/ /\ signal.error # ""
            /\ UNCHANGED <<viewVars, cacheVars, closed>>
         \/ /\ signal.error = ""
            /\ IF use_cache_checkbox
                 THEN /\ cache_files' = cache_results_files(cache_files, cache_key,
                                          signal.results, signal.column_names)
                      /\ cache_index' = cache_results_index(cache_index, cache_key,
                                                            signal.results)
                      /\ cache_index_file' = cache_index'
                 ELSE UNCHANGED cacheVars
            /\ SetView(process_results(v1, items_per_page))
            /\ Unhandled(process_results_raises(v1, items_per_page))
  /\ UNCHANGED <<db_connection, query_worker, workers, open_connections>>
  /\ UNCHANGED <<formVars, configVars, exportVars>>

(***************************************************************************)
(* ImageViewer: navigation                                                 *)
(***************************************************************************)
\* Mutant of next_image: the test is off by one.
next_image_OffByOne ==
  /\ ~closed
  /\ IF current_index < Len(results)
       THEN SetView(update_nav_buttons(
                      display_current_record(
                        [View EXCEPT !.current_index = current_index + 1])))
       ELSE UNCHANGED viewVars
  /\ UNCHANGED <<formVars, configVars, cacheVars, workerVars, exportVars, closed>>

next_image ==
  /\ ~closed
  /\ IF current_index < Len(results) - 1
       THEN SetView(update_nav_buttons(
                      display_current_record(
                        [View EXCEPT !.current_index = current_index + 1])))
       ELSE UNCHANGED viewVars
  /\ UNCHANGED <<formVars, configVars, cacheVars, workerVars, exportVars, closed>>

prev_image ==
  /\ ~closed
  /\ IF current_index > 0
       THEN SetView(update_nav_buttons(
                      display_current_record(
                        [View EXCEPT !.current_index = current_index - 1])))
       ELSE UNCHANGED viewVars
  /\ UNCHANGED <<formVars, configVars, cacheVars, workerVars, exportVars, closed>>

prev_page ==
  /\ ~closed
  /\ IF current_page > 0
       THEN \E v1 \in {[View EXCEPT !.current_page = current_page - 1]} :
              /\ SetView(update_grid_view(v1, items_per_page))
              /\ Unhandled(update_grid_view_raises(v1, items_per_page))
       ELSE UNCHANGED <<viewVars, closed>>
  /\ UNCHANGED <<formVars, configVars, cacheVars, workerVars, exportVars>>

next_page ==
  /\ ~closed
  /\ IF current_page < TotalPages(Len(results), items_per_page) - 1
       THEN \E v1 \in {[View EXCEPT !.current_page = current_page + 1]} :
              /\ SetView(update_grid_view(v1, items_per_page))
              /\ Unhandled(update_grid_view_raises(v1, items_per_page))
       ELSE UNCHANGED <<viewVars, closed>>
  /\ UNCHANGED <<formVars, configVars, cacheVars, workerVars, exportVars>>

\* The window is resized: the current record is drawn again.
resizeEvent ==
  /\ ~closed
  /\ IF current_index # -1
       THEN SetView(display_current_record(View))
       ELSE UNCHANGED viewVars
  /\ UNCHANGED <<formVars, configVars, cacheVars, workerVars, exportVars, closed>>

(***************************************************************************)
(* ImageViewer: export                                                     *)
(***************************************************************************)
\* str.replace(" ", "_")
RECURSIVE Underscored(_)
Underscored(s) ==
  IF s = "" THEN ""
  ELSE (IF SubSeq(s, 1, 1) = " " THEN "_" ELSE SubSeq(s, 1, 1))
       \o Underscored(SubSeq(s, 2, Len(s)))

\* The file name the save dialog proposes, without its ".png".
RECURSIVE SuggestedName(_, _, _, _)
SuggestedName(cols, record, index, candidates) ==
  IF candidates = <<>> THEN "image_" \o ToString(index + 1)
  ELSE IF \E i \in 1..Len(cols) : i <= Len(record) /\ cols[i] = Head(candidates)
         THEN Underscored(PyStr(RecordGet(cols, record, Head(candidates))))
         ELSE SuggestedName(cols, record, index, Tail(candidates))

NoDialog == [kind |-> "none", index |-> -1, image |-> "", suggested |-> ""]

Dialog(kind, index, image, suggested) ==
  [kind |-> kind, index |-> index, image |-> image, suggested |-> suggested]

\* download_image_by_index.  file_path is what the save dialog returns (""
\* when it is cancelled), save_ok whether QImage.save succeeds.  dialog
\* records the box the call ended with; a call that shows none leaves it.
download_image_by_index(index, file_path, save_ok) ==
  /\ ~closed
  /\ IF ~InRange(index, results) THEN UNCHANGED exportVars
     ELSE LET record == results[index + 1]
              image_data == RecordGet(column_names, record, image_column_name)
              r == process_image_data(image_data)
              suggested == SuggestedName(column_names, record, index,
                                         <<"name", "filename", "title">>) \o ".png"
          IN  IF ~Truthy(image_data)
                THEN /\ dialog' = Dialog("No Image", index, "", "")
                     /\ UNCHANGED saved_images
              ELSE IF r.kind = "raise"
                THEN /\ dialog' = Dialog("An error occurred while downloading",
                                         index, "", "")
                     /\ UNCHANGED saved_images
              ELSE IF r.kind = "none" \/ r.v = ""
                THEN /\ dialog' = Dialog("Unable to process image data.", index, "", "")
                     /\ UNCHANGED saved_images
              ELSE IF QImage_isNull(r.v)
                THEN /\ dialog' = Dialog("Invalid image data.", index, "", "")
                     /\ UNCHANGED saved_images
              ELSE IF file_path = ""
                THEN /\ dialog' = Dialog("Save Image", index, r.v, suggested)
                     /\ UNCHANGED saved_images
              ELSE IF save_ok
                THEN /\ dialog' = Dialog("Success", index, r.v, suggested)
                     /\ saved_images' =
                          saved_images \cup {[path |-> file_path, image |-> r.v]}
                ELSE /\ dialog' = Dialog("Failed to save image.", index, r.v, suggested)
                     /\ UNCHANGED saved_images
  /\ UNCHANGED <<formVars, configVars, cacheVars, viewVars, workerVars, closed>>

\* Mutant of download_current_image: the first record is exported.
download_current_image_First(file_path, save_ok) ==
  IF InRange(current_index, results)
    THEN download_image_by_index(0, file_path, save_ok)
    ELSE /\ ~closed
         /\ UNCHANGED vars

\* The Download button, a click on the image, and the File menu's
\* Export Current Image (export_current_image only calls this).
download_current_image(file_path, save_ok) ==
  IF InRange(current_index, results)
    THEN download_image_by_index(current_index, file_path, save_ok)
    ELSE /\ ~closed
         /\ UNCHANGED vars

export_current_image(file_path, save_ok) == download_current_image(file_path, save_ok)

(***************************************************************************)
(* ImageViewer: the Cache menu and closing                                 *)
(***************************************************************************)
\* Mutant of clear_cache_files: no file is unlinked.
clear_cache_files_Kept(index, files) == files

\* CacheManager.clear_cache: the files the index names are unlinked, the
\* index is emptied and saved.
clear_cache_files(index, files) ==
  [f \in DOMAIN files \ {index[k].file : k \in DOMAIN index} |-> files[f]]

clear_cache(reply) ==
  /\ ~closed
  /\ \/ /\ reply = "Yes"
        /\ cache_files' = clear_cache_files(cache_index, cache_files)
        /\ cache_index' = EmptyDict
        /\ cache_index_file' = cache_index'
     \/ /\ reply = "No"
        /\ UNCHANGED cacheVars
  /\ UNCHANGED <<formVars, configVars, viewVars, workerVars, exportVars, closed>>

\* save_current_settings: the config after it; saveGeometry's hex text is
\* the token "geometry".
save_current_settings(cfg) ==
  [cfg EXCEPT !.window_geometry = "geometry",
              !.last_connection = get_connection_info,
              !.last_query = query_input,
              !.last_image_column = image_column_input,
              !.grid_columns = grid_columns_spinbox]

\* closeEvent: the settings are saved and the connection, if any, is closed;
\* the application's event loop ends with its last window.
closeEvent ==
  /\ ~closed
  /\ closed' = TRUE
  /\ config' = save_current_settings(config)
  /\ config_file' = config'
  /\ open_connections' =
       IF db_connection # NoneVal THEN open_connections - 1 ELSE open_connections
  /\ UNCHANGED <<db_connection, run_button, progress_bar, query_worker, workers,
                 finished_signals>>
  /\ UNCHANGED <<saved_connections_list, saved_queries_list, formVars, cacheVars,
                 viewVars, exportVars>>

(***************************************************************************)
(* The state after ImageViewer() on a first start: no config file and no   *)
(* cache directory on disk.                                                *)
(***************************************************************************)
DefaultQuery == "SELECT id, name, image_data FROM images;"

InitForm ==
  /\ db_type_combo = "SQLite"
  /\ conn_name_input = ""
  /\ sqlite_path_input = ""
  /\ pg_host_input = "localhost"
  /\ pg_port_input = "5432"
  /\ pg_dbname_input = "mydatabase"
  /\ pg_user_input = "postgres"
  /\ pg_pass_input = ""
  /\ query_input = DefaultQuery
  /\ query_name_input = ""
  /\ image_column_input = "image_data"
  /\ use_cache_checkbox = TRUE
  /\ grid_columns_spinbox = 3
  /\ items_per_page = 21

InitConfig ==
  /\ config = DefaultConfig
  /\ config_file = NoneVal
  /\ saved_connections_list = <<>>
  /\ saved_queries_list = <<>>

InitCache ==
  /\ cache_index = EmptyDict
  /\ cache_index_file = NoneVal
  /\ cache_files = EmptyDict

InitView ==
  /\ results = <<>>
  /\ column_names = <<>>
  /\ current_index = -1
  /\ image_column_name = ""
  /\ current_page = 0
  /\ grid_items = <<>>
  /\ status_label = "No query run yet."
  /\ image_label = LabelText("Image will be displayed here")
  /\ other_data_label = "Other data from the row will appear here."
  /\ prev_button = TRUE
  /\ next_button = TRUE
  /\ download_button = TRUE
  /\ page_label = "Page 1 of 1"
  /\ prev_page_btn = TRUE
  /\ next_page_btn = TRUE

InitWorker ==
  /\ db_connection = NoneVal
  /\ run_button = TRUE
  /\ progress_bar = FALSE
  /\ query_worker = NoneVal
  /\ workers = 0
  /\ finished_signals = <<>>
  /\ open_connections = 0

InitExport ==
  /\ dialog = NoDialog
  /\ saved_images = {}

Init ==
  /\ InitForm
  /\ InitConfig
  /\ InitCache
  /\ InitView
  /\ InitWorker
  /\ InitExport
  /\ closed = FALSE

(***************************************************************************)
(* The inputs the environment chooses from                                 *)
(***************************************************************************)
DbTypes == {"SQLite", "PostgreSQL"}

Replies == {"Yes", "No"}

Paths == {"", "a.db"}

\* " " is stripped to the empty column name.
ImageColumns == {" ", "image_data"}

DefaultColumns == <<"id", "name", "image_data">>

Row(id, name, image_data) == <<IntCell(id), StrCell(name), image_data>>

\* What the database may return for the query: no rows, two rows (one image
\* stored as bytes, one as base64 text), or rows without the image column.
RsEmpty == [cols |-> DefaultColumns, rows |-> <<>>]

RsTwo ==
  [cols |-> DefaultColumns,
   rows |-> <<Row("1", "cat one", BytesCell("PNG1")),
              Row("2", "dog", StrCell("UE5HMg=="))>>]

RsNoColumn == [cols |-> <<"id", "pic">>, rows |-> <<<<IntCell("1"), NullCell>>>>]

DbResults == {RsEmpty, RsTwo, RsNoColumn}

DbErrors == {"no such table: images"}

Signals(rss) == {FinishedOk(rs) : rs \in rss} \cup {FinishedError(e) : e \in DbErrors}

(***************************************************************************)
(* Spec: querying, the worker thread and the cache                         *)
(***************************************************************************)
Next ==
  \/ \E t \in DbTypes : SetDbType(t)
  \/ \E p \in Paths : SetSqlitePath(p)
  \/ \E c \in ImageColumns : SetImageColumn(c)
  \/ \E b \in BOOLEAN : SetUseCache(b)
  \/ \E connects \in BOOLEAN : run_query(connects)
  \/ \E signal \in Signals(DbResults) : QueryWorker_run(signal)
  \/ on_query_finished
  \/ \E reply \in Replies : clear_cache(reply)
  \/ closeEvent

Spec == Init /\ [][Next]_vars

\* FairSpec: the same machine with fewer edits of the form, and with the
\* scheduling the platform gives: the worker thread runs and its database
\* call returns; the event loop delivers a queued signal.
NextWorker ==
  \/ \E t \in DbTypes : SetDbType(t)
  \/ \E b \in BOOLEAN : SetUseCache(b)
  \/ \E connects \in BOOLEAN : run_query(connects)
  \/ \E signal \in Signals(DbResults) : QueryWorker_run(signal)
  \/ on_query_finished
  \/ closeEvent

FairSpec ==
  /\ Init
  /\ [][NextWorker]_vars
  /\ WF_vars(\E signal \in Signals(DbResults) : QueryWorker_run(signal))
  /\ WF_vars(on_query_finished)

(***************************************************************************)
(* SpecBrowse: browsing the records of a result one by one.  The user      *)
(* has picked a database file and unchecked Use Cache; the database        *)
(* returns result sets of up to MaxRows rows whose image cells are of      *)
(* every kind.                                                             *)
(***************************************************************************)
MaxRows == 2

\* Image cells: NULL, numbers, text (empty, base64 of an image, base64 of
\* other bytes, text without base64 characters, text of a wrong length,
\* the str() of bytes that a cached result holds), bytes (empty, an image,
\* other bytes).
ImageCellList ==
  <<StrCell("abc"), StrCell("UE5HMg=="), NullCell, BytesCell("PNG1"),
    IntCell("7"), BytesCell("junk"), StrCell(""), StrCell("anVuaw=="),
    StrCell("%%%"), StrCell("b'PNG1'"), BytesCell(""), IntCell("0")>>

ImageCells == {ImageCellList[i] : i \in 1..Len(ImageCellList)}

RsSingle(cell) == [cols |-> DefaultColumns, rows |-> <<Row("1", "cat one", cell)>>]

RsRows(n) ==
  [cols |-> DefaultColumns,
   rows |-> [i \in 1..n |->
               Row(ToString(i), "n" \o ToString(i),
                   ImageCellList[((i - 1) % Len(ImageCellList)) + 1])]]

BrowseResults ==
  {RsSingle(cell) : cell \in ImageCells}
    \cup {RsRows(n) : n \in 0..MaxRows}
    \cup {RsNoColumn}

InitBrowse ==
  /\ InitConfig
  /\ InitCache
  /\ InitView
  /\ InitWorker
  /\ InitExport
  /\ closed = FALSE
  /\ db_type_combo = "SQLite"
  /\ conn_name_input = ""
  /\ sqlite_path_input = "a.db"
  /\ pg_host_input = "localhost"
  /\ pg_port_input = "5432"
  /\ pg_dbname_input = "mydatabase"
  /\ pg_user_input = "postgres"
  /\ pg_pass_input = ""
  /\ query_input = DefaultQuery
  /\ query_name_input = ""
  /\ image_column_input = "image_data"
  /\ use_cache_checkbox = FALSE
  /\ grid_columns_spinbox = 3
  /\ items_per_page = 21

NextBrowse ==
  \/ \E c \in ImageColumns : SetImageColumn(c)
  \/ \E connects \in BOOLEAN : run_query(connects)
  \/ \E signal \in Signals(BrowseResults) : QueryWorker_run(signal)
  \/ on_query_finished
  \/ next_image
  \/ prev_image
  \/ resizeEvent

SpecBrowse == InitBrowse /\ [][NextBrowse]_vars

(***************************************************************************)
(* SpecExport: exporting images while browsing.  The image cells are one   *)
(* of each outcome of an export.                                           *)
(***************************************************************************)
SavePaths == {"", "out.png"}

ExportCells == {NullCell, StrCell("%%%"), BytesCell("junk"), IntCell("7")}

ExportResults ==
  {RsSingle(cell) : cell \in ExportCells}
    \cup {RsRows(n) : n \in 0..MaxRows}
    \cup {RsNoColumn}

NextExport ==
  \/ \E c \in ImageColumns : SetImageColumn(c)
  \/ \E connects \in BOOLEAN : run_query(connects)
  \/ \E signal \in Signals(ExportResults) : QueryWorker_run(signal)
  \/ on_query_finished
  \/ next_image
  \/ prev_image
  \/ \E f \in SavePaths, ok \in BOOLEAN : download_current_image(f, ok)
  \/ \E f \in SavePaths, ok \in BOOLEAN : export_current_image(f, ok)

SpecExport == InitBrowse /\ [][NextExport]_vars

(***************************************************************************)
(* SpecConnections and SpecQueries: the saved connections and the saved    *)
(* queries.  The first varies the connection form, the second the query    *)
(* form.                                                                   *)
(***************************************************************************)
\* " a " is stripped to "a".
ConnNames == {"", " a ", "b"}

DefaultPg ==
  [host |-> "localhost", port |-> "5432", dbname |-> "mydatabase",
   user |-> "postgres", password |-> ""]

OtherPg ==
  [host |-> "db.example", port |-> "5433", dbname |-> "photos",
   user |-> "viewer", password |-> "secret"]

PgFillings == {DefaultPg, OtherPg}

\* More than 50 characters between the blanks.
LongQuery == " SELECT id, name, image_data FROM images WHERE id > 100 ORDER BY id; "

QueryTexts == {" ", LongQuery, "SELECT 1 "}

QueryNames == {"", " n1"}

NextConnections ==
  \/ \E t \in DbTypes : SetDbType(t)
  \/ \E s \in ConnNames : SetConnName(s)
  \/ \E p \in Paths : SetSqlitePath(p)
  \/ \E f \in PgFillings : SetPgFields(f)
  \/ save_current_connection
  \/ \E i \in DOMAIN saved_connections_list : load_saved_connection(i)
  \/ \E i \in DOMAIN saved_connections_list, reply \in Replies :
       delete_selected_connection(i, reply)
  \/ save_current_query
  \/ \E i \in DOMAIN saved_queries_list, reply \in Replies :
       delete_selected_query(i, reply)

SpecConnections == Init /\ [][NextConnections]_vars

NextQueries ==
  \/ \E q \in QueryTexts : SetQuery(q)
  \/ \E s \in QueryNames : SetQueryName(s)
  \/ save_current_query
  \/ \E i \in DOMAIN saved_queries_list : load_saved_query(i)
  \/ \E i \in DOMAIN saved_queries_list, reply \in Replies :
       delete_selected_query(i, reply)
  \/ SetConnName("b")
  \/ save_current_connection
  \/ \E i \in DOMAIN saved_connections_list, reply \in Replies :
       delete_selected_connection(i, reply)

SpecQueries == Init /\ [][NextQueries]_vars

(***************************************************************************)
(* Claims about querying, the worker and the cache (Spec, FairSpec)        *)
(***************************************************************************)
\* The key of the current connection form and query text.
CurrentKey == get_cache_key(get_connection_info, query_input)

\* A readable cache entry exists for the current key.
HasEntry ==
  /\ CurrentKey \in DOMAIN cache_index
  /\ cache_index[CurrentKey].file \in DOMAIN cache_files

\* C1: get_cached_results(k) after cache_results(k, results, column_names)
\* returns the results and the column names that were stored: whenever
\* on_query_finished caches the rows a worker delivered, the entry read back
\* under the same key holds those rows and column names.
C1_CacheRoundTrip ==
  [][(on_query_finished /\ Head(finished_signals).error = "" /\ use_cache_checkbox)
       => LET got == get_cached_results(cache_index', cache_files', CurrentKey)
          IN  /\ got # NoneVal
              /\ got.results = Head(finished_signals).results
              /\ got.column_names = Head(finished_signals).column_names]_vars

\* C2: a run_query with a non-empty image column, Use Cache checked and a
\* readable entry for the current key takes its results and column names
\* from the entry, opens no connection (db_connection is None afterwards),
\* starts no worker and leaves the run button enabled.
C2_CacheHit ==
  [][((\E connects \in BOOLEAN : run_query(connects))
        /\ Strip(image_column_input) # "" /\ use_cache_checkbox /\ HasEntry)
       => /\ results' = cache_files[cache_index[CurrentKey].file].results
          /\ column_names' = cache_files[cache_index[CurrentKey].file].column_names
          /\ db_connection' = NoneVal
          /\ open_connections' <= open_connections
          /\ workers' = workers
          /\ query_worker' = query_worker
          /\ finished_signals' = finished_signals
          /\ run_button']_vars

\* C2's case: the viewer shows rows that came back from a cache file (the
\* bytes cell of the two-row result as text) and holds no connection.
C2_Witness ==
  /\ results = JsonRows(RsTwo.rows)
  /\ results # RsTwo.rows
  /\ db_connection = NoneVal
  /\ open_connections = 0
  /\ run_button

\* Workers in flight: running, or finished with the signal not yet handled.
InFlight == workers + Len(finished_signals)

\* C4: while a worker is in flight the run button is disabled, and at most
\* one worker is running at any time.
C4_SingleWorker ==
  /\ InFlight > 0 => ~run_button
  /\ InFlight <= 1
  /\ workers <= 1

C4_Witness == workers = 1 /\ ~run_button /\ progress_bar

\* C5: every started worker emits its finished signal exactly once, with
\* rows and an empty error or with no rows and an error message, and the run
\* button, once disabled, is enabled again and the progress bar hidden
\* (for as long as the window is open: closing it ends the event loop).
C5_WorkerCompletion ==
  /\ [][workers' < workers
          => /\ workers' = workers - 1
             /\ Len(finished_signals') = Len(finished_signals) + 1]_vars
  /\ [][Len(finished_signals') > Len(finished_signals)
          => /\ workers' = workers - 1
             /\ Len(finished_signals') = Len(finished_signals) + 1]_vars
  /\ [](\A i \in 1..Len(finished_signals) :
          \/ finished_signals[i].error = ""
          \/ /\ finished_signals[i].results = <<>>
             /\ finished_signals[i].column_names = <<>>)
  /\ (~run_button ~> ((run_button /\ ~progress_bar) \/ closed))

\* C5's case: a worker's error signal has been handled: the button is
\* enabled again, the worker is still the member, nothing was shown.
C5_Witness ==
  /\ query_worker # NoneVal
  /\ run_button
  /\ ~progress_bar
  /\ InFlight = 0
  /\ results = <<>>
  /\ status_label = "No query run yet."

(***************************************************************************)
(* Claims about the single-record view and export (SpecBrowse, SpecExport) *)
(***************************************************************************)
StartsWith(s, prefix) ==
  Len(s) >= Len(prefix) /\ SubSeq(s, 1, Len(prefix)) = prefix

\* The steps in which display_current_record draws a record: a resize, a
\* move to the next or the previous record, the arrival of a result.
Drawn ==
  \/ resizeEvent /\ InRange(current_index, results)
  \/ next_image /\ current_index < Len(results) - 1
                /\ InRange(current_index + 1, results)
  \/ prev_image /\ current_index > 0 /\ InRange(current_index - 1, results)
  \/ /\ on_query_finished
     /\ Head(finished_signals).error = ""
     /\ Head(finished_signals).results # <<>>
     /\ \E i \in DOMAIN Head(finished_signals).column_names :
          Head(finished_signals).column_names[i] = image_column_name

\* C3: whatever the image cell of the record drawn, display_current_record
\* leaves the image label in exactly one of four outcomes: the decoded image,
\* "No image in this record.", "Unsupported image data type." or a text
\* that starts with "Error loading image:"; a null or empty cell gives the
\* second, bytes or base64 text of an image the first, other non-empty bytes
\* and text that is no base64 the fourth, a number the third; the row data
\* and the "Record i of n" status are those of the record drawn.
C3_GracefulFallback ==
  [][Drawn =>
       LET record == results'[current_index' + 1]
           cell == RecordGet(column_names', record, image_column_name')
           label == image_label'
       IN  /\ \/ label.pixmap \in Images /\ label.text = ""
              \/ label.pixmap = "" /\ label.text = "No image in this record."
              \/ label.pixmap = "" /\ label.text = "Unsupported image data type."
              \/ label.pixmap = "" /\ StartsWith(label.text, "Error loading image:")
           /\ ~Truthy(cell) => label.text = "No image in this record."
           /\ (cell.t = "bytes" /\ cell.v \in Images) => label.pixmap = cell.v
           /\ (cell.t = "bytes" /\ cell.v \notin Images /\ cell.v # "")
                => StartsWith(label.text, "Error loading image:")
           /\ (cell.t = "str" /\ b64decode(cell.v).ok
                 /\ b64decode(cell.v).bytes \in Images)
                => label.pixmap = b64decode(cell.v).bytes
           /\ (cell.t = "str" /\ cell.v # "" /\ ~b64decode(cell.v).ok)
                => StartsWith(label.text, "Error loading image:")
           /\ (cell.t = "int" /\ Truthy(cell))
                => label.text = "Unsupported image data type."
           /\ other_data_label' =
                OtherData(column_names', record, image_column_name',
                          RecordKeys(column_names', record))
           /\ status_label' = RecordStatus(current_index', Len(results'))]_vars

\* C3's case: the first of two records, whose image cell is text that is no
\* base64, is drawn with the error text, its row data and its status.
C3_Witness ==
  /\ Len(results) = 2
  /\ current_index = 0
  /\ StartsWith(image_label.text, "Error loading image:")
  /\ other_data_label = "<b>id:</b> 1<br><b>name:</b> n1<br>"
  /\ status_label = "Record 1 of 2"

\* The Download button, a click on the image, or Export Current Image.
Export ==
  \E f \in SavePaths, ok \in BOOLEAN :
    download_current_image(f, ok) \/ export_current_image(f, ok)

\* C9: export_current_image / download_current_image leaves results,
\* column_names, current_index, current_page and the cache unchanged; with
\* current_index in range it acts on results[current_index]: the box it ends
\* with is about that record, the image it offers and the image it saves are
\* the decoded image cell of that record, and an image cell is always
\* offered; out of range it does nothing.
C9_ExportCurrentRecord ==
  [][Export =>
       /\ UNCHANGED <<results, column_names, current_index, current_page, cacheVars>>
       /\ IF InRange(current_index, results)
            THEN LET cell == RecordGet(column_names, results[current_index + 1],
                                       image_column_name)
                     r == process_image_data(cell)
                     offered == {"Save Image", "Success", "Failed to save image."}
                 IN  /\ dialog'.index = current_index
                     /\ dialog'.kind \in offered
                          => dialog'.image = r.v /\ r.v \in Images
                     /\ (Truthy(cell) /\ r.kind = "bytes" /\ r.v \in Images)
                          => dialog'.kind \in offered
                     /\ \A im \in saved_images' \ saved_images :
                          im.image = r.v /\ dialog'.kind = "Success"
                     /\ saved_images \subseteq saved_images'
            ELSE UNCHANGED vars]_vars

\* C9's case: the second record is the one viewed and its image was saved.
C9_Witness ==
  /\ current_index = 1
  /\ dialog = Dialog("Success", 1, "PNG2", "n2.png")
  /\ [path |-> "out.png", image |-> "PNG2"] \in saved_images

\* C10: next_image adds exactly 1 to current_index when it is below
\* len(results) - 1 and otherwise changes nothing; prev_image subtracts
\* exactly 1 when it is above 0 and otherwise changes nothing; neither
\* changes results, and from an index in range neither leaves the range.
C10_NavigationInRange ==
  /\ [][next_image =>
          IF current_index < Len(results) - 1
            THEN current_index' = current_index + 1 /\ results' = results
            ELSE UNCHANGED vars]_vars
  /\ [][prev_image =>
          IF current_index > 0
            THEN current_index' = current_index - 1 /\ results' = results
            ELSE UNCHANGED vars]_vars
  /\ [][((next_image \/ prev_image) /\ InRange(current_index, results))
          => InRange(current_index', results')]_vars

\* C10's case: the last of two records has been reached.
C10_Witness ==
  /\ Len(results) = 2
  /\ current_index = 1
  /\ status_label = "Record 2 of 2"
  /\ prev_button
  /\ ~next_button

(***************************************************************************)
(* Claims about saved connections and queries (SpecConnections,            *)
(* SpecQueries)                                                            *)
(***************************************************************************)
\* The entry at the end of a list.
Last(list) == list[Len(list)]

\* C6: no two saved connections have the same name; a save under a name
\* puts the new entry last, keeps the other entries as they were and in
\* their order, drops the earlier entry of that name, and leaves the saved
\* queries unchanged; the list shown is the saved one.
C6_UniqueConnections ==
  /\ [](\A i, j \in DOMAIN config.connections :
          i # j => config.connections[i].name # config.connections[j].name)
  /\ [](saved_connections_list = config.connections)
  /\ [][(save_current_connection /\ Strip(conn_name_input) # "") =>
          LET name == Strip(conn_name_input)
              old == config.connections
              new == config'.connections
          IN  /\ Len(new) >= 1
              /\ Last(new).name = name
              /\ Last(new).type = db_type_combo
              /\ SubSeq(new, 1, Len(new) - 1)
                   = SelectSeq(old, LAMBDA c : c.name # name)
              /\ config'.queries = config.queries
              /\ saved_queries_list' = saved_queries_list]_vars

\* C6's case: "b" was saved, then "a": two entries, the later one last, next
\* to a saved query.
C6_Witness ==
  /\ Len(config.connections) = 2
  /\ config.connections[1].name = "b"
  /\ config.connections[2].name = "a"
  /\ config.connections[2].type = "PostgreSQL"
  /\ Len(config.queries) = 1

\* C7: no two saved queries have the same query text; a save of a query
\* text puts the new entry, with the new name, last, keeps the other entries
\* as they were and in their order, drops the earlier entry of that text,
\* and leaves the saved connections unchanged; the list shown is the saved
\* one.
C7_UniqueQueries ==
  /\ [](\A i, j \in DOMAIN config.queries :
          i # j => config.queries[i].query # config.queries[j].query)
  /\ [](saved_queries_list = config.queries)
  /\ [][(save_current_query /\ Strip(query_input) # "") =>
          LET query == Strip(query_input)
              name == Strip(query_name_input)
              old == config.queries
              new == config'.queries
          IN  /\ Len(new) >= 1
              /\ Last(new).query = query
              /\ name # "" => Last(new).name = name
              /\ name = "" => StartsWith(query, SubSeq(Last(new).name, 1,
                                                       Len(Last(new).name) - 3))
              /\ SubSeq(new, 1, Len(new) - 1)
                   = SelectSeq(old, LAMBDA q : q.query # query)
              /\ config'.connections = config.connections
              /\ saved_connections_list' = saved_connections_list]_vars

\* C7's case: two query texts are saved, the long one later and under the
\* name that was typed, next to a saved connection.
C7_Witness ==
  /\ Len(config.queries) = 2
  /\ config.queries[1].query = "SELECT 1"
  /\ config.queries[2].query = Strip(LongQuery)
  /\ config.queries[2].name = "n1"
  /\ Len(config.connections) = 1

\* The fields of the connection form that a saved entry of its type holds.
FormFields ==
  IF db_type_combo = "SQLite"
    THEN [type |-> db_type_combo, path |-> sqlite_path_input]
    ELSE [type |-> db_type_combo, host |-> pg_host_input, port |-> pg_port_input,
          dbname |-> pg_dbname_input, user |-> pg_user_input,
          password |-> pg_pass_input]

\* A saved entry without its name.
EntryFields(e) == [k \in DOMAIN e \ {"name"} |-> e[k]]

\* A load of the entry e sets the form to e in these steps.
LoadsEntry ==
  \A i \in DOMAIN saved_connections_list :
    load_saved_connection(i) =>
      LET e == saved_connections_list[i]
      IN  /\ conn_name_input' = e.name
          /\ FormFields' = EntryFields(e)

\* Whatever is done meanwhile, the entries shown are entries that a save
\* stored, unaltered.
EntriesKept ==
  \A i \in DOMAIN saved_connections_list' :
    \/ \E j \in DOMAIN saved_connections_list :
         saved_connections_list'[i] = saved_connections_list[j]
    \/ /\ save_current_connection
       /\ i = Len(saved_connections_list')

\* C8 as stated: the entry a save stores, and a later load sets the form to,
\* holds the connection name as the form had it when it was saved.
C8_NameAsTyped ==
  /\ [][(save_current_connection /\ Strip(conn_name_input) # "") =>
          /\ Last(saved_connections_list').name = conn_name_input
          /\ EntryFields(Last(saved_connections_list')) = FormFields]_vars
  /\ [][EntriesKept]_vars
  /\ [][LoadsEntry]_vars

\* C8: the entry a save stores holds the database type and the fields of
\* that type as the form has them and the connection name without its
\* leading and trailing blanks; entries stay as stored; a load of an entry
\* sets the type, the name and the fields of that type to the entry's.
C8_SaveLoadRoundTrip ==
  /\ [][(save_current_connection /\ Strip(conn_name_input) # "") =>
          /\ Last(saved_connections_list').name = Strip(conn_name_input)
          /\ EntryFields(Last(saved_connections_list')) = FormFields]_vars
  /\ [][EntriesKept]_vars
  /\ [][LoadsEntry]_vars

\* C8's case: the form holds what a load set it to: the name "a", which is
\* typed as " a " only, and the PostgreSQL fields of the entry saved under it.
C8_Witness ==
  /\ conn_name_input = "a"
  /\ db_type_combo = "PostgreSQL"
  /\ pg_port_input = "5433"
  /\ pg_pass_input = "secret"
  /\ \E i \in DOMAIN saved_connections_list :
       /\ saved_connections_list[i].name = "a"
       /\ EntryFields(saved_connections_list[i]) = FormFields

(***************************************************************************)
(* SpecGrid: the paginated grid.  The database returns result sets of up   *)
(* to MaxGridRows rows: none, one, a full page, a page and one row, two    *)
(* pages and more.                                                         *)
(***************************************************************************)
MaxGridRows == 19

\* The least and the next value of the items-per-page box.
PageSizes == {9, 10}

GridRowCounts == {0, 1, 9, 10, MaxGridRows}

GridResults == {RsRows(n) : n \in GridRowCounts}

NextGrid ==
  \/ \E p \in PageSizes : SetItemsPerPage(p)
  \/ \E connects \in BOOLEAN : run_query(connects)
  \/ \E signal \in Signals(GridResults) : QueryWorker_run(signal)
  \/ on_query_finished
  \/ next_page
  \/ prev_page

SpecGrid == InitBrowse /\ [][NextGrid]_vars

(***************************************************************************)
(* Claims about the grid (SpecGrid)                                        *)
(***************************************************************************)
\* ceil(n / p)
CeilDiv(n, p) == (n + p - 1) \div p

\* The steps in which update_grid_view runs: a page change, the arrival of
\* a result with rows.
GridUpdated ==
  \/ next_page /\ current_page' # current_page
  \/ prev_page /\ current_page > 0
  \/ /\ on_query_finished
     /\ Head(finished_signals).error = ""
     /\ Head(finished_signals).results # <<>>
     /\ \E i \in DOMAIN Head(finished_signals).column_names :
          Head(finished_signals).column_names[i] = image_column_name

\* The grid shows exactly the records of page k of n results, p to a page,
\* in index order.
ShowsPage(items, k, p, n) ==
  LET lo == k * p
      hi == Min((k + 1) * p, n)
  IN  /\ Len(items) = (IF hi > lo THEN hi - lo ELSE 0)
      /\ \A j \in DOMAIN items : items[j].idx = lo + j - 1

\* C11: with n results and p items per page, update_grid_view on page k
\* shows exactly the records k*p <= i < min((k+1)*p, n) in index order and
\* the page label reports ceil(n/p) pages; next_page advances by one page
\* exactly while a later page exists, so that stepping from page 0 shows
\* every record once.
C11_GridPagination ==
  /\ [][GridUpdated =>
          LET n == Len(results')
              p == items_per_page
              k == current_page'
          IN  /\ ShowsPage(grid_items', k, p, n)
              /\ page_label' = PageStatus(k, CeilDiv(n, p))]_vars
  /\ [][next_page =>
          IF current_page < CeilDiv(Len(results), items_per_page) - 1
            THEN current_page' = current_page + 1 /\ results' = results
            ELSE UNCHANGED vars]_vars

(***************************************************************************)
(* A new start of the program on the files the last run left               *)
(***************************************************************************)
\* ConfigManager.load_config: the file's content, the defaults without a
\* file.  The values of the config are str, int, list, dict and None, which
\* json.dump writes and json.load reads back as themselves.
load_config(file) == IF file = NoneVal THEN DefaultConfig ELSE file

\* CacheManager.load_cache_index
load_cache_index(file) == IF file = NoneVal THEN EmptyDict ELSE file

\* The form the widgets are built with (setup_ui).
FormDefaults ==
  [db_type |-> "SQLite", conn_name |-> "", sqlite_path |-> "",
   pg_host |-> "localhost", pg_port |-> "5432", pg_dbname |-> "mydatabase",
   pg_user |-> "postgres", pg_pass |-> "", query |-> DefaultQuery,
   query_name |-> "", image_column |-> "image_data", use_cache |-> TRUE,
   grid_columns |-> 3, items_per_page |-> 21]

\* load_saved_settings: the form after it, from the config loaded.
load_saved_settings(cfg) ==
  LET conn == cfg.last_connection
      f1 == IF DOMAIN conn = {} THEN FormDefaults
            ELSE IF Get(conn, "type", NoneVal) = "SQLite"
              THEN [FormDefaults EXCEPT !.db_type = "SQLite",
                                        !.sqlite_path = Get(conn, "path", "")]
              ELSE [FormDefaults EXCEPT !.db_type = "PostgreSQL",
                                        !.pg_host = Get(conn, "host", "localhost"),
                                        !.pg_port = Get(conn, "port", "5432"),
                                        !.pg_dbname = Get(conn, "dbname", ""),
                                        !.pg_user = Get(conn, "user", "")]
      f2 == IF cfg.last_query # "" THEN [f1 EXCEPT !.query = cfg.last_query] ELSE f1
      f3 == IF cfg.last_image_column # ""
              THEN [f2 EXCEPT !.image_column = cfg.last_image_column] ELSE f2
  IN  IF cfg.grid_columns # 0 THEN [f3 EXCEPT !.grid_columns = cfg.grid_columns]
      ELSE f3

\* The members and the widgets of the viewer panel as they are made.
InitialView ==
  [results |-> <<>>, column_names |-> <<>>, current_index |-> -1,
   image_column_name |-> "", current_page |-> 0, grid_items |-> <<>>,
   status_label |-> "No query run yet.",
   image_label |-> LabelText("Image will be displayed here"),
   other_data_label |-> "Other data from the row will appear here.",
   prev_button |-> TRUE, next_button |-> TRUE, download_button |-> TRUE,
   page_label |-> "Page 1 of 1", prev_page_btn |-> TRUE, next_page_btn |-> TRUE]

\* ImageViewer() in a new process, after the window of the last one was
\* closed: the managers load their files, the members and the widgets are
\* made anew, the saved settings are loaded.  The files stay as they are.
Restart ==
  /\ closed
  /\ closed' = FALSE
  /\ config' = load_config(config_file)
  /\ saved_connections_list' = config'.connections
  /\ saved_queries_list' = config'.queries
  /\ cache_index' = load_cache_index(cache_index_file)
  /\ \E form \in {load_saved_settings(config')} :
       /\ db_type_combo' = form.db_type
       /\ conn_name_input' = form.conn_name
       /\ sqlite_path_input' = form.sqlite_path
       /\ pg_host_input' = form.pg_host
       /\ pg_port_input' = form.pg_port
       /\ pg_dbname_input' = form.pg_dbname
       /\ pg_user_input' = form.pg_user
       /\ pg_pass_input' = form.pg_pass
       /\ query_input' = form.query
       /\ query_name_input' = form.query_name
       /\ image_column_input' = form.image_column
       /\ use_cache_checkbox' = form.use_cache
       /\ grid_columns_spinbox' = form.grid_columns
       /\ items_per_page' = form.items_per_page
  /\ SetView(InitialView)
  /\ db_connection' = NoneVal
  /\ run_button' = TRUE
  /\ progress_bar' = FALSE
  /\ query_worker' = NoneVal
  /\ workers' = 0
  /\ finished_signals' = <<>>
  /\ open_connections' = 0
  /\ dialog' = NoDialog
  /\ UNCHANGED <<config_file, cache_index_file, cache_files, saved_images>>

(***************************************************************************)
(* SpecRestart: the settings across runs.  The user edits the form, closes *)
(* the window and starts the program again.                                *)
(***************************************************************************)
RestartQueries == {"", "SELECT 1"}

\* The ends of the grid-columns spin box.
GridColumnValues == {1, 10}

NextRestart ==
  \/ \E t \in DbTypes : SetDbType(t)
  \/ \E p \in Paths : SetSqlitePath(p)
  \/ \E f \in PgFillings : SetPgFields(f)
  \/ \E q \in RestartQueries : SetQuery(q)
  \/ \E c \in ImageColumns : SetImageColumn(c)
  \/ \E n \in GridColumnValues : SetGridColumns(n)
  \/ closeEvent
  \/ Restart

SpecRestart == Init /\ [][NextRestart]_vars

(***************************************************************************)
(* SpecPersist: the config file.  The user saves and deletes connections   *)
(* and queries, closes the window and starts the program again.            *)
(***************************************************************************)
NextPersist ==
  \/ \E t \in DbTypes : SetDbType(t)
  \/ \E name \in ConnNames : SetConnName(name)
  \/ save_current_connection
  \/ \E i \in DOMAIN saved_connections_list, reply \in Replies :
       delete_selected_connection(i, reply)
  \/ \E q \in RestartQueries : SetQuery(q)
  \/ save_current_query
  \/ \E i \in DOMAIN saved_queries_list, reply \in Replies :
       delete_selected_query(i, reply)
  \/ closeEvent
  \/ Restart

SpecPersist == Init /\ [][NextPersist]_vars

(***************************************************************************)
(* Claims about the config file (SpecPersist, SpecRestart)                 *)
(***************************************************************************)
\* The steps that change the saved connections or the saved queries.
ConfigChange ==
  \/ save_current_connection /\ Strip(conn_name_input) # ""
  \/ save_current_query /\ Strip(query_input) # ""
  \/ \E i \in DOMAIN saved_connections_list : delete_selected_connection(i, "Yes")
  \/ \E i \in DOMAIN saved_queries_list : delete_selected_query(i, "Yes")

DeleteDeclined ==
  \/ \E i \in DOMAIN saved_connections_list : delete_selected_connection(i, "No")
  \/ \E i \in DOMAIN saved_queries_list : delete_selected_query(i, "No")

\* C12: after each save and each confirmed delete of a connection or a
\* query the config file equals the config in memory, and a ConfigManager
\* that loads it gets the same connections and queries in the same order, as
\* the next start does; a declined delete changes neither memory nor file.
C12_ConfigPersisted ==
  /\ [][ConfigChange =>
          /\ config_file' = config'
          /\ load_config(config_file').connections = config'.connections
          /\ load_config(config_file').queries = config'.queries]_vars
  /\ [][DeleteDeclined => UNCHANGED <<config, config_file>>]_vars
  /\ [][Restart =>
          /\ config'.connections = config.connections
          /\ config'.queries = config.queries
          /\ saved_connections_list' = config.connections
          /\ saved_queries_list' = config.queries]_vars

\* C12's case: the program has been started again and shows the connection
\* and the query saved in the run before.
C12_Witness ==
  /\ ~closed
  /\ config.window_geometry = "geometry"
  /\ Len(saved_connections_list) = 1
  /\ Len(saved_queries_list) = 1
  /\ saved_connections_list = config.connections
  /\ config_file = config

\* C13: a new ImageViewer started on the config file that closeEvent wrote
\* shows the database type, the SQLite path or the PostgreSQL host, port,
\* database name and user, the query text, the image column and the
\* grid-columns value that the form had at close.
C13_SettingsRestored ==
  [][Restart =>
       /\ db_type_combo' = db_type_combo
       /\ IF db_type_combo = "SQLite"
            THEN sqlite_path_input' = sqlite_path_input
            ELSE /\ pg_host_input' = pg_host_input
                 /\ pg_port_input' = pg_port_input
                 /\ pg_dbname_input' = pg_dbname_input
                 /\ pg_user_input' = pg_user_input
       /\ query_input' = query_input
       /\ image_column_input' = image_column_input
       /\ grid_columns_spinbox' = grid_columns_spinbox]_vars

(***************************************************************************)
(* Claims about the cache (Spec)                                           *)
(***************************************************************************)
\* The connection infos and the query texts of the inputs.
KeyInfos ==
  {[type |-> "sqlite", path |-> p] : p \in Paths}
    \cup {[type |-> "postgresql", host |-> f.host, port |-> f.port,
           dbname |-> f.dbname, user |-> f.user] : f \in PgFillings}

KeyQueries == {DefaultQuery} \cup RestartQueries

\* What a connection described by info was opened with.
TargetsOf(info) ==
  IF info.type = "sqlite" THEN {info.path}
  ELSE {"host=" \o info.host \o " port=" \o info.port \o " dbname=" \o info.dbname
        \o " user=" \o info.user \o " password=" \o f.password : f \in PgFillings}

\* The key run_query computed when it started the worker: that of the
\* connection the worker queries and of the query text it runs.
WorkerKey ==
  get_cache_key(CHOOSE info \in KeyInfos :
                  query_worker.connection.target \in TargetsOf(info),
                query_worker.query)

\* C14: get_cache_key gives different keys to runs that differ in database
\* type, SQLite path, PostgreSQL host, port, database name or user, or in
\* query text, and the results of a run are stored under the key of that
\* run, so that no (connection, query) pair is served the results of another.
C14_CacheKeysUnique ==
  /\ [](\A a, b \in KeyInfos : \A q, r \in KeyQueries :
          get_cache_key(a, q) = get_cache_key(b, r) => (a = b /\ q = r))
  /\ [][(on_query_finished /\ Head(finished_signals).error = ""
           /\ use_cache_checkbox)
          => /\ WorkerKey \in DOMAIN cache_index'
             /\ \A k \in DOMAIN cache_index' :
                  (k \notin DOMAIN cache_index \/ cache_index'[k] # cache_index[k]
                     \/ cache_files'[cache_index'[k].file]
                          # cache_files[cache_index[k].file])
                    => k = WorkerKey]_vars

\* C15: a confirmed clear_cache leaves the cache index empty in memory and
\* on disk, no file that the index referred to, no result for any key and a
\* cache size of 0; a declined one leaves the index and the files unchanged.
C15_ClearCache ==
  /\ [][clear_cache("Yes") =>
          /\ cache_index' = EmptyDict
          /\ load_cache_index(cache_index_file') = EmptyDict
          /\ \A k \in DOMAIN cache_index :
               cache_index[k].file \notin DOMAIN cache_files'
          /\ \A a \in KeyInfos, q \in KeyQueries :
               get_cached_results(cache_index', cache_files',
                                  get_cache_key(a, q)) = NoneVal
          /\ get_cache_size(cache_index') = 0]_vars
  /\ [][clear_cache("No") => UNCHANGED cacheVars]_vars

\* C15's case: the rows shown came from a cache entry, and the cache has
\* been cleared since.
C15_Witness ==
  /\ results = JsonRows(RsTwo.rows)
  /\ results # RsTwo.rows
  /\ cache_index = EmptyDict
  /\ cache_index_file = EmptyDict
  /\ cache_files = EmptyDict

\* The steps in which cache_results runs.
Caches ==
  on_query_finished /\ Head(finished_signals).error = "" /\ use_cache_checkbox

\* The rows of the result sets that the cache files of the keys hold.
RECURSIVE RowsCached(_)
RowsCached(keys) ==
  IF keys = {} THEN 0
  ELSE LET k == CHOOSE x \in keys : TRUE
       IN  Len(cache_files[cache_index[k].file].results) + RowsCached(keys \ {k})

\* C16: the index has one entry for each key cached since the last clear,
\* with the number of rows of the result set cached last under the key, and
\* get_cache_size is the sum of these: cache_results adds the key, or
\* replaces its count when the key is there, and changes no other entry;
\* a clear leaves no entry; nothing else changes the index.
C16_CacheAccounting ==
  /\ [](\A k \in DOMAIN cache_index :
          /\ cache_index[k].file \in DOMAIN cache_files
          /\ cache_index[k].size = Len(cache_files[cache_index[k].file].results))
  /\ [](get_cache_size(cache_index) = RowsCached(DOMAIN cache_index))
  /\ [][Caches =>
          LET k == CurrentKey
              n == Len(Head(finished_signals).results)
              before == IF k \in DOMAIN cache_index THEN cache_index[k].size ELSE 0
          IN  /\ DOMAIN cache_index' = DOMAIN cache_index \cup {k}
              /\ cache_index'[k].size = n
              /\ \A j \in DOMAIN cache_index \ {k} : cache_index'[j] = cache_index[j]
              /\ get_cache_size(cache_index')
                   = get_cache_size(cache_index) - before + n]_vars
  /\ [][clear_cache("Yes") =>
          Cardinality(DOMAIN cache_index') = 0 /\ get_cache_size(cache_index') = 0]_vars
  /\ [][cache_index' # cache_index => (Caches \/ clear_cache("Yes"))]_vars

\* C16's case: two keys are cached, one with two rows and one with one.
C16_Witness ==
  /\ Cardinality(DOMAIN cache_index) = 2
  /\ get_cache_size(cache_index) = 3
  /\ \E k \in DOMAIN cache_index : cache_index[k].size = 1


\* The inputs of run_query are valid: an image column is given and a SQLite
\* database has a path.
ValidInputs ==
  /\ Strip(image_column_input) # ""
  /\ ~(db_type_combo = "SQLite" /\ sqlite_path_input = "")

\* C17: with the Use Cache box unchecked, no run_query takes its results from
\* the cache; one with valid inputs that the database accepts connects and
\* starts a worker for the query, whether or not the key has an entry; and
\* on_query_finished leaves the cache index, the index file and the cache
\* files unchanged.
C17_CacheBypass ==
  /\ [][((\E connects \in BOOLEAN : run_query(connects)) /\ ~use_cache_checkbox)
          => UNCHANGED <<results, column_names, current_index, status_label>>]_vars
  /\ [][(run_query(TRUE) /\ ~use_cache_checkbox /\ ValidInputs)
          => /\ db_connection' = Connection(ConnectTarget)
             /\ query_worker' = [connection |-> Connection(ConnectTarget),
                                 query |-> query_input]
             /\ workers' = workers + 1
             /\ ~run_button']_vars
  /\ [][(on_query_finished /\ ~use_cache_checkbox) => UNCHANGED cacheVars]_vars

\* C17's case: the box is unchecked, the current key has a readable entry,
\* and a worker runs the query on a connection opened for the current form.
C17_Witness ==
  /\ ~use_cache_checkbox
  /\ HasEntry
  /\ workers = 1
  /\ db_connection = Connection(ConnectTarget)
  /\ query_worker = [connection |-> db_connection, query |-> query_input]


(***************************************************************************)
(* Claims about the connection and the result view (Spec)                  *)
(***************************************************************************)
\* The number of connections that db_connection refers to.
Held == IF db_connection # NoneVal THEN 1 ELSE 0

\* C18: at most one database connection is open.  Every connection the viewer
\* opened, except the one in db_connection, has been closed; run_query closes
\* the existing one on every path (empty column, cache hit, failed connect,
\* successful connect) and holds afterwards none or the one it opened; and
\* closeEvent closes the one in db_connection.
C18_OneConnection ==
  /\ [](open_connections <= Held /\ (~closed => open_connections = Held))
  /\ [][(\E connects \in BOOLEAN : run_query(connects))
          => /\ open_connections' = (IF db_connection' # NoneVal THEN 1 ELSE 0)
             /\ open_connections' = 1 => (workers' = workers + 1
                                          /\ query_worker'.connection = db_connection')
             /\ (Strip(image_column_input) = "" \/ CacheLookup # NoneVal)
                  => db_connection' = NoneVal]_vars
  /\ [][closeEvent => open_connections' = 0]_vars

\* C18's case: a worker runs on the connection of a second run_query while
\* the rows of the first one, fetched on an earlier connection, are shown.
C18_Witness ==
  /\ db_connection # NoneVal
  /\ open_connections = 1
  /\ workers = 1
  /\ results = RsNoColumn.rows


\* The steps in which process_results runs with the image column among the
\* column names: the arrival of a result and a cache hit of run_query.
ProcessesResults ==
  /\ \/ on_query_finished /\ Head(finished_signals).error = ""
     \/ /\ \E connects \in BOOLEAN : run_query(connects)
        /\ Strip(image_column_input) # ""
        /\ CacheLookup # NoneVal
  /\ \E i \in DOMAIN column_names' : column_names'[i] = image_column_name'

\* C19: process_results with the image column present sets, for no rows,
\* current_index to -1 and disables Previous, Next and Download; for n >= 1
\* rows it sets current_index to 0, shows "Record 1 of n", disables
\* Previous, enables Next exactly when n > 1 and enables Download.
C19_ProcessResults ==
  [][ProcessesResults =>
       LET n == Len(results')
       IN  IF n = 0
             THEN /\ current_index' = -1
                  /\ ~prev_button' /\ ~next_button' /\ ~download_button'
             ELSE /\ current_index' = 0
                  /\ status_label' = RecordStatus(0, n)
                  /\ ~prev_button'
                  /\ next_button' = (n > 1)
                  /\ download_button']_vars

=============================================================================
